---- MODULE Spec2Model ----
(***************************************************************************)
(* Cooperative co-evolutionary feature selection (pedbrgs/CCEAs).          *)
(*                                                                         *)
(* The engine (coevolution/ccea.py, coevolution/ccfsrfg.py), the binary    *)
(* subpopulation initializer (initialization/random.py) and the single     *)
(* random collaboration (cooperation/random.py) as one state machine.      *)
(*                                                                         *)
(* Python lists and numpy arrays are sequences; Python index k is TLA+     *)
(* index k+1.  An optional configuration value (dict.get -> None) is a     *)
(* record [given, val].                                                    *)
(***************************************************************************)
EXTENDS Integers, Sequences, FiniteSets, TLC

(* ----------------------------- bounds --------------------------------- *)
MaxFeatures == 2      \* columns of data.X
MaxSubcomps == 2      \* longest subpop_sizes / subcomp_sizes list
MaxSubpopSize == 2    \* most individuals in one subpopulation
MaxFit == 1           \* fitness values are 0..MaxFit
MaxGen == 2           \* generations run by optimize

VARIABLES
    conf,               \* conf["coevolution"] and data.X.shape[1]
    pc,                 \* position of the run
    error,              \* the exception that ended the run, if any
    n_features,         \* CCEA.n_features
    subpop_sizes,       \* CCEA.subpop_sizes
    n_subcomps,         \* CCEA.n_subcomps (optional until decomposition)
    subcomp_sizes,      \* CCEA.subcomp_sizes (optional until decomposition)
    components,         \* attributes set by the _init_* calls of __init__
    convergence_curve,  \* CCEA.convergence_curve
    initializer,        \* the RandomBinaryInitialization object
    loop,               \* loop indices and locals of evaluate_individuals / optimize
    lastCall,           \* arguments and result of the latest get_collaborators
    subpops,            \* CCEA.subpops
    context_vectors,    \* CCEA.context_vectors
    fitness,            \* CCEA.fitness
    current_best,       \* CCEA.current_best
    best,               \* CCEA.best_context_vector, CCEA.best_fitness
    n_gen,              \* completed generations
    data,               \* CCEA.data: X_train, X_val, S_train, S_val (columns)
    feature_idxs,       \* CCFSRFG.feature_idxs
    decomposer,         \* the decomposer's n_subcomps and subcomp_sizes
    shared,             \* pairs of attributes that refer to one list object
    py_random,          \* state of the global stream of the random module
    np_random,          \* state of the global stream of numpy.random
    loader,             \* the DataLoader: dataset, data, files read
    round,              \* the current round: bests at its start, subpopulations advanced
    calls               \* calls made on an initializer used on its own, in order

vars == <<conf, pc, error, n_features, subpop_sizes, n_subcomps, subcomp_sizes,
          components, convergence_curve, initializer, loop, lastCall,
          subpops, context_vectors, fitness, current_best, best, n_gen,
          data, feature_idxs, decomposer, shared, py_random, np_random, loader,
          round, calls>>

(* ----------------------------- helpers -------------------------------- *)
RECURSIVE SeqsUpTo(_, _)
SeqsUpTo(S, n) ==
    IF n = 0 THEN {<<>>}
    ELSE LET shorter == SeqsUpTo(S, n - 1)
         IN  shorter \cup {Append(s, x) : s \in {t \in shorter : Len(t) = n - 1}, x \in S}

SeqsOfLen(S, n) == {s \in SeqsUpTo(S, n) : Len(s) = n}

RECURSIVE SumSeq(_)
SumSeq(s) == IF s = <<>> THEN 0 ELSE s[1] + SumSeq(Tail(s))

Min(a, b) == IF a < b THEN a ELSE b

Some(v) == [given |-> TRUE, val |-> v]
NoInt == [given |-> FALSE, val |-> 0]
NoList == [given |-> FALSE, val |-> <<>>]

\* Python truthiness of an optional int / an optional list
TruthyInt(o) == o.given /\ o.val # 0
TruthyList(o) == o.given /\ Len(o.val) > 0

(* --------------------------- configuration ---------------------------- *)
Sizes == 1..MaxSubpopSize
Configs ==
    [n_features : 1..MaxFeatures,
     subpop_sizes : SeqsUpTo(Sizes, MaxSubcomps),
     n_subcomps : {NoInt} \cup {Some(n) : n \in 0..(MaxSubcomps + 1)},
     subcomp_sizes : {NoList} \cup {Some(s) : s \in SeqsUpTo(1..MaxFeatures, MaxSubcomps)},
     eval_mode : {"train_val", "k_fold"},
     seed : {Some(1)}]

(* ------------------------------- data --------------------------------- *)
\* A feature matrix is the sequence of its columns; a column is named by its
\* split and its position in the raw data.
Columns(split, n) == [c \in 1..n |-> [split |-> split, col |-> c]]

\* The data handed to the engine: X_val exists only when a validation split
\* was made.
InitialData(c) ==
    [X_train |-> Columns("train", c.n_features),
     X_val |-> IF c.eval_mode = "train_val" THEN Columns("val", c.n_features) ELSE <<>>,
     S_train |-> <<>>,
     S_val |-> <<>>]

\* Streams of pseudo-random numbers: the seed last set, how often the stream
\* was reseeded and how many numbers were drawn since.
FreshStream == [seed |-> NoInt, reseeded |-> 0, pos |-> 0]
Reseed(stream, seed) == [seed |-> seed, reseeded |-> stream.reseeded + 1, pos |-> 0]
Advance(stream, n) == [stream EXCEPT !.pos = @ + n]

(* --------------------------- CCEA.__init__ ---------------------------- *)
\* faulty variant: a supplied n_subcomps is never compared
NSubcompsMismatchUnchecked(c) == FALSE

\* ccea.py:70-71  "if self.n_subcomps: if self.n_subcomps != len(self.subpop_sizes)"
NSubcompsMismatch(c) ==
    TruthyInt(c.n_subcomps) /\ c.n_subcomps.val # Len(c.subpop_sizes)

\* faulty variant: the comparison only catches a list that is too long
SubcompSizesMismatchLonger(c) ==
    TruthyList(c.subcomp_sizes) /\ Len(c.subcomp_sizes.val) > Len(c.subpop_sizes)

\* ccea.py:79-80  "if self.subcomp_sizes: if len(self.subcomp_sizes) != len(self.subpop_sizes)"
SubcompSizesMismatch(c) ==
    TruthyList(c.subcomp_sizes) /\ Len(c.subcomp_sizes.val) # Len(c.subpop_sizes)

\* The three _init_* calls of ccea.py:89-91 and the list of ccea.py:93
AllComponents == {"decomposer", "evaluator", "collaborator", "convergence_curve"}

\* faulty variant: the components are initialized first and the sizes are checked last
CCEA_init_CheckLast(c) ==
    [err |-> IF NSubcompsMismatch(c) THEN "n_subcomps"
             ELSE IF SubcompSizesMismatch(c) THEN "subcomp_sizes" ELSE "none",
     n_subcomps |-> c.n_subcomps,
     subcomp_sizes |-> c.subcomp_sizes,
     components |-> AllComponents]

\* The object as __init__ leaves it: the attributes assigned up to the raise,
\* or all of them.
CCEA_init(c) ==
    IF NSubcompsMismatch(c)
    THEN [err |-> "n_subcomps", n_subcomps |-> c.n_subcomps,
          subcomp_sizes |-> NoList, components |-> {}]
    ELSE IF SubcompSizesMismatch(c)
    THEN [err |-> "subcomp_sizes", n_subcomps |-> c.n_subcomps,
          subcomp_sizes |-> c.subcomp_sizes, components |-> {}]
    ELSE [err |-> "none", n_subcomps |-> c.n_subcomps,
          subcomp_sizes |-> c.subcomp_sizes, components |-> AllComponents]

(* ---------------------------- decomposer ------------------------------ *)
\* Even division of n features into k groups, the remainder going to the
\* first groups.
EvenSplit(n, k) == [g \in 1..k |-> (n \div k) + (IF g <= n % k THEN 1 ELSE 0)]

\* decompose(): the sizes the decomposer ends up with, or an error.
Decompose(ns, ss, n) ==
    IF TruthyList(ss)
    THEN IF SumSeq(ss.val) # n
         THEN [err |-> TRUE, n_subcomps |-> 0, subcomp_sizes |-> <<>>]
         ELSE [err |-> FALSE, n_subcomps |-> Len(ss.val), subcomp_sizes |-> ss.val]
    ELSE IF TruthyInt(ns)
         THEN [err |-> FALSE, n_subcomps |-> ns.val, subcomp_sizes |-> EvenSplit(n, ns.val)]
         ELSE [err |-> TRUE, n_subcomps |-> 0, subcomp_sizes |-> <<>>]

\* Permutations of 1..n
Perms(n) == {p \in [1..n -> 1..n] : \A a, b \in 1..n : p[a] = p[b] => a = b}

\* X[:, idxs]
Reorder(X, idxs) == [p \in 1..Len(idxs) |-> X[idxs[p]]]

\* Contiguous blocks of the given sizes
Blocks(X, sizes) ==
    [k \in 1..Len(sizes) |->
        SubSeq(X, SumSeq(SubSeq(sizes, 1, k - 1)) + 1, SumSeq(SubSeq(sizes, 1, k)))]

\* decompose(X, feature_idxs): every (subcomponents, feature_idxs) the call
\* can return; a permutation is drawn only when none is supplied.
DecomposeOutcomes(X, idxs, sizes) ==
    {[S |-> Blocks(Reorder(X, p), sizes), feature_idxs |-> p] :
        p \in IF idxs.given THEN {idxs.val} ELSE Perms(Len(X))}

\* faulty variant: the validation call passes no feature_idxs
ValFeatureIdxsOmitted(idxs) == NoList

\* ccfsrfg.py:71-72: the validation call passes feature_idxs=self.feature_idxs
ValFeatureIdxs(idxs) == Some(idxs)

\* faulty variant: the engine keeps the decomposer's list itself
AssignSubcompSizesByReference(sh) == sh \cup {"subcomp_sizes: engine, decomposer"}

\* ccfsrfg.py:64: self.subcomp_sizes = self.decomposer.subcomp_sizes.copy()
AssignSubcompSizes(sh) == sh \ {"subcomp_sizes: engine, decomposer"}

(* ------------------- SingleRandomCollaboration ------------------------ *)
\* __init__ (cooperation/random.py:20-22): random.seed(seed) and
\* np.random.seed(seed=seed) reseed the two global streams.
CollaboratorInit(seed, py, np) ==
    [py_random |-> Reseed(py, seed), np_random |-> Reseed(np, seed)]

\* build_context_vector: the representatives concatenated in order.
RECURSIVE BuildContextVector(_)
BuildContextVector(collaborators) ==
    IF collaborators = <<>> THEN <<>>
    ELSE collaborators[1] \o BuildContextVector(Tail(collaborators))

\* faulty variant: the product is rounded, so position n + 1 can be drawn
ChoiceIndicesRounded(n) == 1..(n + 1)

\* random.choices(population, k=1) indexes population[floor(random() * n)],
\* random() in [0, 1): the positions a draw can produce.
ChoiceIndices(n) == 1..n

\* One draw per subpopulation (cooperation/random.py:45).
Draws(sp) == {d \in [1..Len(sp) -> 1..(MaxSubpopSize + 1)] :
                \A k \in 1..Len(sp) : d[k] \in ChoiceIndices(Len(sp[k]))}

\* faulty variant: the slot of the individual keeps the random draw
GetCollaboratorsNoOverride(i, j, sp, d) ==
    IF \E k \in 1..Len(sp) : d[k] \notin 1..Len(sp[k])
    THEN [err |-> TRUE, collaborators |-> <<>>]
    ELSE [err |-> FALSE, collaborators |-> [k \in 1..Len(sp) |-> sp[k][d[k]]]]

\* faulty variant: the whole subpopulation, not individual j, is put in slot i
GetCollaboratorsWholeSubpop(i, j, sp, d) ==
    IF \E k \in 1..Len(sp) : d[k] \notin 1..Len(sp[k])
    THEN [err |-> TRUE, collaborators |-> <<>>]
    ELSE [err |-> FALSE,
          collaborators |-> [k \in 1..Len(sp) |->
                                IF k = i THEN BuildContextVector(sp[i]) ELSE sp[k][d[k]]]]

\* get_collaborators(subpop_idx = i, indiv_idx = j, subpops = sp) when the
\* draws are d: IndexError if a draw is outside its subpopulation, else the
\* drawn individuals with slot i overwritten by individual j.
GetCollaborators(i, j, sp, d) ==
    IF \E k \in 1..Len(sp) : d[k] \notin 1..Len(sp[k])
    THEN [err |-> TRUE, collaborators |-> <<>>]
    ELSE [err |-> FALSE,
          collaborators |-> [k \in 1..Len(sp) |-> IF k = i THEN sp[i][j] ELSE sp[k][d[k]]]]

\* Calls of random() made by get_collaborators before it returns or raises:
\* one per subpopulation, up to and including the first draw that fails.
DrawsMade(sp, d) ==
    LET bad == {k \in 1..Len(sp) : d[k] \notin 1..Len(sp[k])}
    IN  IF bad = {} THEN Len(sp) ELSE CHOOSE k \in bad : \A m \in bad : k <= m

(* ------------------- RandomBinaryInitialization ----------------------- *)
\* Values np.random.choice draws for subpopulations of these shapes
\* (initialization/random.py:68, size=(subpop_size, subcomp_size))
CellsDrawn(built) ==
    SumSeq([k \in 1..Len(built) |-> SumSeq([m \in 1..Len(built[k]) |-> Len(built[k][m])])])

\* __init__ (initialization/random.py:45-59)
NewInitializer(ss, ps) ==
    [subpop_sizes |-> ps, context_vectors |-> <<>>, subpops |-> <<>>,
     fitness |-> <<>>, n_subcomps |-> Len(ss), subcomp_sizes |-> ss]

\* RandomBinaryInitialization(subcomp_sizes=ss, subpop_sizes=ps): line 57
\* takes len(subcomp_sizes), a TypeError when it is None.
InitializerCreation(ss, ps) ==
    IF ~ss.given
    THEN [err |-> "TypeError", initializer |-> NewInitializer(<<>>, <<>>)]
    ELSE [err |-> "none", initializer |-> NewInitializer(ss.val, ps)]

\* _init_optimizers (ccfsrfg.py:47-55): range(self.n_subcomps), then
\* subpop_sizes[i] and subcomp_sizes[i] for every i of the range.
OptimizersCreation(ns, ps, ss) ==
    IF ~ns.given THEN "TypeError"
    ELSE IF ns.val = 0 THEN "none"
    ELSE IF Len(ps) = 0 THEN "IndexError"
    ELSE IF ~ss.given THEN "TypeError"
    ELSE IF Len(ss.val) = 0 THEN "IndexError"
    ELSE IF ns.val > Min(Len(ps), Len(ss.val)) THEN "IndexError"
    ELSE "none"

\* faulty variant: the two dimensions of the array are swapped
RandomBinarySubpopTransposed(subpop_size, subcomp_size) ==
    SeqsOfLen(SeqsOfLen({0, 1}, subpop_size), subcomp_size)

\* np.random.choice([0, 1], size=(subpop_size, subcomp_size)): every array
\* the draw can give.
RandomBinarySubpop(subpop_size, subcomp_size) ==
    SeqsOfLen(SeqsOfLen({0, 1}, subcomp_size), subpop_size)

\* fitness_function.evaluate(context_vector, data): a value, or an exception
\* of the evaluator.
FitnessOutcomes ==
    {[raised |-> FALSE, value |-> f] : f \in 0..MaxFit}
        \cup {[raised |-> TRUE, value |-> 0]}

\* faulty variant: the exception is caught and the individual scores 0
PropagatesNever(o) == FALSE

\* evaluate_individuals has no handler around the call of line 95: an
\* exception of the evaluator leaves the method.
Propagates(o) == o.raised

\* faulty variant: the matrix of context vectors is inserted at the front
StoreSubpopResultsPrepended(ini, cvs, fit) ==
    [ini EXCEPT !.context_vectors = <<cvs>> \o @, !.fitness = Append(@, fit)]

\* initialization/random.py:100-103: one matrix of context vectors and one
\* list of fitness values per subpopulation
StoreSubpopResults(ini, cvs, fit) ==
    [ini EXCEPT !.context_vectors = Append(@, cvs), !.fitness = Append(@, fit)]

\* The subpopulations one run of the loop of build_subpopulations can append:
\* one per pair of zip(subcomp_sizes, subpop_sizes).
RECURSIVE BuiltSubpops(_, _)
BuiltSubpops(ss, ps) ==
    IF ss = <<>> \/ ps = <<>> THEN {<<>>}
    ELSE {<<first>> \o rest : first \in RandomBinarySubpop(ps[1], ss[1]),
                              rest \in BuiltSubpops(Tail(ss), Tail(ps))}

\* faulty variant: build_subpopulations starts from an empty list
AppendBuiltCleared(old, built) == built

\* initialization/random.py:70: self.subpops.append(subpop) for every
\* subpopulation built; the list is not cleared first
AppendBuilt(old, built) == old \o built

\* Calls an initializer used on its own receives
MaxCalls == 4

\* Arguments a RandomBinaryInitialization is created with
InitializerShapes ==
    {[subcomp_sizes |-> <<1, 1>>, subpop_sizes |-> <<1, 1>>],
     [subcomp_sizes |-> <<2>>, subpop_sizes |-> <<1>>]}

\* What the passes of the inner loop of evaluate_individuals over
\* subpopulation i can produce when no evaluation raises: one context vector
\* and one fitness value per individual (initialization/random.py:87-99)
SubpopResults(sp, i) ==
    LET n == Len(sp[i])
        ok == {o \in FitnessOutcomes : ~Propagates(o)}
        cvOf(j, d) == BuildContextVector(GetCollaborators(i, j, sp, d).collaborators)
    IN  {[cvs |-> [j \in 1..n |-> cvOf(j, f[j].d)],
          fit |-> [j \in 1..n |-> f[j].o.value]] :
            f \in [1..n -> [d : Draws(sp), o : ok]]}

\* Results stored for the first m subpopulations
RECURSIVE PrefixResults(_, _)
PrefixResults(sp, m) ==
    IF m = 0 THEN {<<>>}
    ELSE {Append(p, r) : p \in PrefixResults(sp, m - 1), r \in SubpopResults(sp, m)}

\* One call of evaluate_individuals on subpopulations sp: it returns after
\* storing results for all of them, or an evaluation raises while
\* subpopulation m + 1 is being evaluated, after the results of m were stored
EvaluateResults(sp) ==
    {[stored |-> p, raised |-> FALSE] : p \in PrefixResults(sp, Len(sp))}
      \cup {[stored |-> p, raised |-> TRUE] :
               p \in UNION {PrefixResults(sp, m) :
                              m \in {k \in 0..(Len(sp) - 1) :
                                       \E o \in FitnessOutcomes : Propagates(o)}}}

\* The stores of initialization/random.py:100-103 for every result in turn
RECURSIVE StoreAll(_, _)
StoreAll(ini, results) ==
    IF results = <<>> THEN ini
    ELSE StoreAll(StoreSubpopResults(ini, results[1].cvs, results[1].fit), Tail(results))

(* ------------------ RandomContinuousInitialization -------------------- *)
\* Values np.random.uniform(low=0, high=1) can draw, in tenths: one below the
\* midpoint, the midpoint, one above
ContinuousLevels == {2, 5, 8}

\* The shifted midpoint of the thresholding function, in tenths
Midpoint == 5

\* shifted_heaviside_function on one value: 1 from the midpoint on, else 0
ShiftedHeaviside(x) == IF x >= Midpoint THEN 1 ELSE 0

\* shifted_heaviside_function on one individual (element-wise, a new array)
Threshold(indiv) == [g \in 1..Len(indiv) |-> ShiftedHeaviside(indiv[g])]

\* faulty variant: the collaborators are assembled as they are
ThresholdCollaboratorsSkipped(encoded) == encoded

\* initialization/random.py:209-212: every collaborator is mapped
ThresholdCollaborators(encoded) == [k \in 1..Len(encoded) |-> Threshold(encoded[k])]

\* np.random.uniform(low, high, size=(subpop_size, subcomp_size))
RandomContinuousSubpop(subpop_size, subcomp_size) ==
    SeqsOfLen(SeqsOfLen(ContinuousLevels, subcomp_size), subpop_size)

\* One run of the loop of the continuous build_subpopulations
\* (initialization/random.py:177-186)
RECURSIVE BuiltContinuousSubpops(_, _)
BuiltContinuousSubpops(ss, ps) ==
    IF ss = <<>> \/ ps = <<>> THEN {<<>>}
    ELSE {<<first>> \o rest : first \in RandomContinuousSubpop(ps[1], ss[1]),
                              rest \in BuiltContinuousSubpops(Tail(ss), Tail(ps))}

\* Arguments a RandomContinuousInitialization is created with
ContinuousShapes ==
    {[subcomp_sizes |-> <<1, 1>>, subpop_sizes |-> <<1, 1>>],
     [subcomp_sizes |-> <<1, 1>>, subpop_sizes |-> <<2, 1>>],
     [subcomp_sizes |-> <<2, 1>>, subpop_sizes |-> <<1, 1>>]}

(* -------------------------- engine helpers ---------------------------- *)
\* The engine attribute and the initializer attribute of that name are one
\* object
EngineInitializerAliases ==
    {"subpops: engine, initializer", "context_vectors: engine, initializer",
     "fitness: engine, initializer"}

\* faulty variant: the three attributes are assigned without copying
CopiedByReference(sh) == sh \cup EngineInitializerAliases

\* ccea.py:162-166: three copy.deepcopy calls, so no object is shared
DeepCopied(sh) == sh \ EngineInitializerAliases

\* The value an attribute of one side has after a write to the attribute of
\* that name on the other side: the written value if both are one object
Seen(sh, alias, own, written) == IF alias \in sh THEN written ELSE own

\* faulty variant: on ties the last position wins
ArgMaxLast(f) ==
    CHOOSE k \in 1..Len(f) :
        /\ \A m \in 1..Len(f) : f[m] <= f[k]
        /\ \A m \in (k + 1)..Len(f) : f[m] < f[k]

\* np.argmax: the first position holding the maximum
ArgMax(f) ==
    CHOOSE k \in 1..Len(f) :
        /\ \A m \in 1..Len(f) : f[m] <= f[k]
        /\ \A m \in 1..(k - 1) : f[m] < f[k]

\* faulty variant: the entry of the first subpopulation is returned
GetGlobalBestFirst(cb) ==
    [set |-> TRUE, context_vector |-> cb[1].context_vector, fitness |-> cb[1].fitness]

\* CCEA._get_global_best (ccea.py:144-149)
GetGlobalBest(cb) ==
    LET best_idx == ArgMax([k \in 1..Len(cb) |-> cb[k].fitness])
    IN  [set |-> TRUE,
         context_vector |-> cb[best_idx].context_vector,
         fitness |-> cb[best_idx].fitness]

\* The best individual of every subpopulation with its context vector and
\* fitness, as found by the initializer.
BestIndividuals(sp, cvs, fit) ==
    [i \in 1..Len(sp) |->
        LET j == ArgMax(fit[i])
        IN  [individual |-> sp[i][j], context_vector |-> cvs[i][j], fitness |-> fit[i][j]]]

\* No round has begun
NoRound == [start |-> <<>>, done |-> <<>>]

\* A round begins: the best individuals as they stand, nobody advanced yet
RoundStart(cb) == [start |-> [k \in 1..Len(cb) |-> cb[k].individual], done |-> <<>>]

\* Subpopulation i has been advanced and its best is now b
Advanced(r, i, b) ==
    [r EXCEPT !.done = Append(@, [subpop_idx |-> i, individual |-> b.individual])]

\* faulty variant: collaborators are the bests as they stood when the round began
BestCollaboratorsRoundStart(i, indiv, cb) ==
    [k \in 1..Len(cb) |-> IF k = i THEN indiv ELSE round.start[k]]

\* SingleBest collaboration: the current best of every other subpopulation and
\* the individual itself in its own slot.
BestCollaborators(i, indiv, cb) ==
    [k \in 1..Len(cb) |-> IF k = i THEN indiv ELSE cb[k].individual]

\* The optimizer of one subcomponent is opaque: any binary subpopulation of
\* the same shape can come out of one generation.
Evolve(subpop_size, n) == SeqsOfLen(SeqsOfLen({0, 1}, n), subpop_size)

\* faulty variant: the best of the new generation always replaces the entry
UpdateBestAlways(old, indiv, cv, f) ==
    [individual |-> indiv, context_vector |-> cv, fitness |-> f]

\* current_best[i] is replaced only by a strictly better context vector
UpdateBest(old, indiv, cv, f) ==
    IF f > old.fitness
    THEN [individual |-> indiv, context_vector |-> cv, fitness |-> f]
    ELSE old

NoCall == [subpop_idx |-> 0, indiv_idx |-> 0, err |-> FALSE,
           collaborators |-> <<>>, context_vector |-> <<>>,
           raised |-> FALSE, fitness |-> 0]
NoBest == [set |-> FALSE, context_vector |-> <<>>, fitness |-> 0]
LoopAt(i, j) == [i |-> i, j |-> j, cvs |-> <<>>, fit |-> <<>>]

(* ------------------------------ DataLoader ---------------------------- *)
MaxLoads == 2

\* Keys of DataLoader.datasets (utils/datasets.py:47-72)
KnownDatasets ==
    {"11_tumor", "9_tumor", "brain_tumor_1", "brain_tumor_2", "cbd",
     "dermatology", "divorce", "dlbcl", "gfe", "hapt", "har",
     "isolet5", "leukemia_1", "leukemia_2", "leukemia_3", "lungc",
     "madelon_valid", "mfd", "orh", "prostate_tumor_1",
     "qsar_toxicity", "shd", "uji_indoor", "wdbc"}

\* Identifiers that are not keys: a made-up name, a key in another case,
\* a file name used as a key, the empty string
UnknownDatasets == {"iris", "WDBC", "uji_indoor_loc", ""}

\* Values of DataLoader.datasets: the file of a key (two keys differ from
\* their file names)
DatasetPath(name) ==
    "./datasets/" \o (CASE name = "qsar_toxicity" -> "qsar_oral_toxicity"
                      [] name = "uji_indoor" -> "uji_indoor_loc"
                      [] OTHER -> name) \o ".csv"

\* What is on disk at the path: no file, a first row whose columns do not all
\* have one dtype, or one whose columns do
FileStates == {"missing", "mixed_dtypes", "uniform_dtypes"}

NoData == [given |-> FALSE, path |-> "", header |-> "none"]

\* __init__ (utils/datasets.py:74-93): data is not assigned
NewLoader(dataset, file) ==
    [dataset |-> dataset, file |-> file, data |-> NoData, files_read |-> {},
     error |-> "none", loads |-> 0]

\* faulty variant: the lookup never fails
IsAvailableAlways(dataset) == TRUE

\* utils/datasets.py:131-138: DataLoader.datasets[self.dataset] succeeds
IsAvailable(dataset) == dataset \in KnownDatasets

\* load (utils/datasets.py:127-144)
Load(l) ==
    IF ~IsAvailable(l.dataset)
    THEN [l EXCEPT !.error = "AssertionError", !.loads = @ + 1]
    ELSE LET path == DatasetPath(l.dataset)
         IN  IF l.file = "missing"
             THEN [l EXCEPT !.error = "FileNotFoundError", !.loads = @ + 1,
                            !.files_read = @ \cup {path}]
             ELSE [l EXCEPT !.error = "none", !.loads = @ + 1,
                            !.files_read = @ \cup {path},
                            !.data = [given |-> TRUE, path |-> path,
                                      header |-> IF l.file = "mixed_dtypes"
                                                 THEN "None" ELSE "infer"]]

\* The DataLoader after load() of a known dataset
LoadedLoader == Load(NewLoader("wdbc", "uniform_dtypes"))

(* ------------------------------ Init ---------------------------------- *)
InitFrom(configs, loaders) ==
    /\ conf \in configs
    /\ pc = "new"
    /\ error = "none"
    /\ n_features = 0
    /\ subpop_sizes = <<>>
    /\ n_subcomps = NoInt
    /\ subcomp_sizes = NoList
    /\ components = {}
    /\ convergence_curve = <<>>
    /\ initializer = NewInitializer(<<>>, <<>>)
    /\ loop = LoopAt(0, 0)
    /\ lastCall = NoCall
    /\ subpops = <<>>
    /\ context_vectors = <<>>
    /\ fitness = <<>>
    /\ current_best = <<>>
    /\ best = NoBest
    /\ n_gen = 0
    /\ data = InitialData(conf)
    /\ feature_idxs = <<>>
    /\ decomposer = [n_subcomps |-> NoInt, subcomp_sizes |-> NoList]
    /\ shared = {}
    /\ py_random = FreshStream
    /\ np_random = FreshStream
    /\ loader \in loaders
    /\ round = NoRound
    /\ calls = <<>>

InitWith(configs) == InitFrom(configs, {LoadedLoader})

\* Every train-validation configuration within the bounds
SetupConfigs == {c \in Configs : c.eval_mode = "train_val"}

SetupInit == InitWith(SetupConfigs)

\* Every configuration, both evaluation modes, for the decomposition alone
DecompositionInit == InitWith(Configs)

\* The configurations the generations are run on: two subcomponents of one
\* feature each, given by subcomp_sizes
LoopConfigs ==
    {c \in Configs : /\ c.n_features = 2
                     /\ c.subcomp_sizes = Some(<<1, 1>>)
                     /\ c.n_subcomps = NoInt
                     /\ c.eval_mode = "train_val"
                     /\ c.subpop_sizes \in {<<1, 1>>, <<2, 1>>}}

Init == InitWith(LoopConfigs)

(* ----------------------------- actions -------------------------------- *)
\* CCEA.__init__ (ccea.py:58-93) with the _init_* methods it calls
Construct ==
    /\ pc = "new"
    /\ LET r == CCEA_init(conf)
           streams == CollaboratorInit(conf.seed, py_random, np_random)
       IN  /\ n_features' = conf.n_features
           /\ subpop_sizes' = conf.subpop_sizes
           /\ n_subcomps' = r.n_subcomps
           /\ subcomp_sizes' = r.subcomp_sizes
           /\ components' = r.components
           /\ error' = r.err
           /\ pc' = IF r.err = "none" THEN "constructed" ELSE "config_error"
           /\ decomposer' = IF "decomposer" \in r.components
                            THEN [n_subcomps |-> r.n_subcomps,
                                  subcomp_sizes |-> r.subcomp_sizes]
                            ELSE decomposer
           /\ py_random' = IF "collaborator" \in r.components
                           THEN streams.py_random ELSE py_random
           /\ np_random' = IF "collaborator" \in r.components
                           THEN streams.np_random ELSE np_random
    /\ UNCHANGED <<calls, data, feature_idxs, shared, loader, round, conf, convergence_curve,
                   initializer, loop, lastCall, subpops, context_vectors, fitness,
                   current_best, best, n_gen>>

\* CCFSRFG._problem_decomposition (ccfsrfg.py:57-79)
ProblemDecomposition ==
    /\ pc = "constructed"
    /\ LET r == Decompose(decomposer.n_subcomps, decomposer.subcomp_sizes, n_features)
       IN  IF r.err
           THEN /\ pc' = "decomposition_error"
                /\ error' = "decomposition"
                /\ UNCHANGED <<n_subcomps, subcomp_sizes, data, feature_idxs,
                               decomposer, shared>>
           ELSE \E t \in DecomposeOutcomes(data.X_train, NoList, r.subcomp_sizes) :
                \E v \in IF conf.eval_mode = "train_val"
                         THEN DecomposeOutcomes(data.X_val, ValFeatureIdxs(t.feature_idxs),
                                                r.subcomp_sizes)
                         ELSE {[S |-> [k \in 1..r.n_subcomps |-> <<>>],
                                feature_idxs |-> t.feature_idxs]} :
                  /\ pc' = "decomposed"
                  /\ error' = error
                  /\ feature_idxs' = t.feature_idxs
                  /\ decomposer' = [n_subcomps |-> Some(r.n_subcomps),
                                    subcomp_sizes |-> Some(r.subcomp_sizes)]
                  /\ n_subcomps' = decomposer'.n_subcomps
                  /\ subcomp_sizes' = decomposer'.subcomp_sizes
                  /\ shared' = AssignSubcompSizes(shared)
                  /\ data' =
                       IF conf.eval_mode = "train_val"
                       THEN [X_train |-> Reorder(data.X_train, feature_idxs'),
                             S_train |-> t.S,
                             S_val |-> v.S,
                             X_val |-> Reorder(data.X_val, feature_idxs')]
                       ELSE [X_train |-> Reorder(data.X_train, feature_idxs'),
                             S_train |-> t.S,
                             S_val |-> v.S,
                             X_val |-> data.X_val]
    /\ UNCHANGED <<calls, py_random, np_random, loader, round, conf, n_features, subpop_sizes,
                   components, convergence_curve, initializer, loop, lastCall, subpops,
                   context_vectors, fitness, current_best, best, n_gen>>

\* CCEA._init_subpopulations, ccea.py:154: CCFSRFG._init_subpop_initializer
InitSubpopInitializer ==
    /\ pc = "decomposed"
    /\ LET r == InitializerCreation(subcomp_sizes, subpop_sizes)
       IN  IF r.err # "none"
           THEN /\ pc' = "creation_error"
                /\ error' = r.err
                /\ UNCHANGED <<initializer, components, shared>>
           ELSE /\ initializer' = r.initializer
                /\ components' = components \cup {"initializer"}
                /\ shared' = shared \cup {"subcomp_sizes: engine, initializer",
                                          "subpop_sizes: engine, initializer"}
                /\ pc' = "initializer_ready"
                /\ error' = error
    /\ UNCHANGED <<calls, data, feature_idxs, decomposer, py_random, np_random,
                   loader, round, conf, n_features, subpop_sizes, n_subcomps, subcomp_sizes,
                   convergence_curve, loop, lastCall, subpops, context_vectors,
                   fitness, current_best, best, n_gen>>

\* RandomBinaryInitialization.build_subpopulations (initialization/random.py:61-74)
BuildSubpopulations ==
    /\ pc = "initializer_ready"
    /\ \E built \in BuiltSubpops(initializer.subcomp_sizes, initializer.subpop_sizes) :
          /\ initializer' = [initializer EXCEPT !.subpops = AppendBuilt(@, built)]
          /\ pc' = IF initializer'.subpops = <<>> THEN "evaluated" ELSE "evaluating"
          /\ np_random' = Advance(np_random, CellsDrawn(built))
    /\ loop' = LoopAt(1, 1)
    /\ UNCHANGED <<calls, data, feature_idxs, decomposer, shared, py_random,
                   loader, round, conf, error, n_features, subpop_sizes, n_subcomps, subcomp_sizes,
                   components, convergence_curve, lastCall, subpops,
                   context_vectors, fitness, current_best, best, n_gen>>

\* One pass of the inner loop of evaluate_individuals
\* (initialization/random.py:87-99) and, after the last individual of a
\* subpopulation, the stores of lines 100-103.
EvaluateIndividual ==
    /\ pc = "evaluating"
    /\ LET sp == initializer.subpops
           i == loop.i
           j == loop.j
       IN  \E d \in Draws(sp), o \in FitnessOutcomes :
             LET r == GetCollaborators(i, j, sp, d)
                 cv == BuildContextVector(r.collaborators)
                 cvs == Append(loop.cvs, cv)
                 fit == Append(loop.fit, o.value)
             IN  /\ lastCall' = [subpop_idx |-> i, indiv_idx |-> j, err |-> r.err,
                                 collaborators |-> r.collaborators,
                                 context_vector |-> cv,
                                 raised |-> (~r.err /\ o.raised),
                                 fitness |-> o.value]
                 /\ py_random' = Advance(py_random, DrawsMade(sp, d))
                 /\ IF r.err
                    THEN /\ pc' = "index_error"
                         /\ error' = "IndexError"
                         /\ UNCHANGED <<initializer, loop>>
                    ELSE IF Propagates(o)
                    THEN /\ pc' = "evaluation_error"
                         /\ error' = "EvaluationError"
                         /\ UNCHANGED <<initializer, loop>>
                    ELSE IF j < Len(sp[i])
                    THEN /\ loop' = [i |-> i, j |-> j + 1, cvs |-> cvs, fit |-> fit]
                         /\ UNCHANGED <<initializer, pc, error>>
                    ELSE /\ error' = error
                         /\ initializer' = StoreSubpopResults(initializer, cvs, fit)
                         /\ loop' = LoopAt(i + 1, 1)
                         /\ pc' = IF i = Len(sp) THEN "evaluated" ELSE "evaluating"
    /\ UNCHANGED <<calls, data, feature_idxs, decomposer, shared, np_random,
                   loader, round, conf, n_features, subpop_sizes, n_subcomps, subcomp_sizes,
                   components, convergence_curve, subpops, context_vectors,
                   fitness, current_best, best, n_gen>>

\* CCEA._init_subpopulations, ccea.py:161-166: the three deep copies
CopyFromInitializer ==
    /\ pc = "evaluated"
    /\ subpops' = initializer.subpops
    /\ context_vectors' = initializer.context_vectors
    /\ fitness' = initializer.fitness
    /\ shared' = DeepCopied(shared)
    /\ pc' = "initialized"
    /\ UNCHANGED <<calls, data, feature_idxs, decomposer, py_random, np_random,
                   loader, round, conf, error, n_features, subpop_sizes, n_subcomps, subcomp_sizes,
                   components, convergence_curve, initializer, loop, lastCall,
                   current_best, best, n_gen>>

\* CCFSRFG._init_optimizers (ccfsrfg.py:47-55)
InitOptimizers ==
    /\ pc = "initialized"
    /\ LET err == OptimizersCreation(n_subcomps, subpop_sizes, subcomp_sizes)
       IN  IF err # "none"
           THEN /\ pc' = "creation_error"
                /\ error' = err
                /\ UNCHANGED components
           ELSE /\ components' = components \cup {"optimizers"}
                /\ pc' = "optimizers_ready"
                /\ error' = error
    /\ UNCHANGED <<calls, data, feature_idxs, decomposer, shared, py_random, np_random,
                   loader, round, conf, n_features, subpop_sizes, n_subcomps, subcomp_sizes,
                   convergence_curve, initializer, loop, lastCall, subpops,
                   context_vectors, fitness, current_best, best, n_gen>>

\* optimize, before the first generation: current_best is seeded from the
\* initializer's output.
SeedCurrentBest ==
    /\ pc = "optimizers_ready"
    /\ current_best' = BestIndividuals(subpops, context_vectors, fitness)
    /\ loop' = LoopAt(1, 1)
    /\ pc' = IF n_subcomps.val = 0 THEN "round_done" ELSE "evolving"
    /\ round' = RoundStart(current_best')
    /\ UNCHANGED <<calls, data, feature_idxs, decomposer, shared, py_random, np_random,
                   loader, conf, error, n_features, subpop_sizes, n_subcomps, subcomp_sizes,
                   components, convergence_curve, initializer, lastCall, subpops,
                   context_vectors, fitness, best, n_gen>>

\* optimize, one subpopulation of the round: the optimizer advances
\* subpopulation i, every new individual is evaluated with the current best
\* of the others, and current_best[i] is updated.
EvolveSubpop ==
    /\ pc = "evolving"
    /\ LET i == loop.i
       IN  \E new \in Evolve(subpop_sizes[i], subcomp_sizes.val[i]) :
           \E fit \in [1..Len(new) -> 0..MaxFit] :
             LET cvs == [j \in 1..Len(new) |->
                            BuildContextVector(BestCollaborators(i, new[j], current_best))]
                 j == ArgMax(fit)
             IN  /\ subpops' = [subpops EXCEPT ![i] = new]
                 /\ context_vectors' = [context_vectors EXCEPT ![i] = cvs]
                 /\ fitness' = [fitness EXCEPT ![i] = fit]
                 /\ current_best' = [current_best EXCEPT
                                       ![i] = UpdateBest(@, new[j], cvs[j], fit[j])]
                 /\ loop' = LoopAt(i + 1, 1)
                 /\ pc' = IF i = n_subcomps.val THEN "round_done" ELSE "evolving"
                 /\ round' = Advanced(round, i, current_best'[i])
                 /\ initializer' =
                      [initializer EXCEPT
                         !.subpops = Seen(shared, "subpops: engine, initializer", @, subpops'),
                         !.context_vectors = Seen(shared, "context_vectors: engine, initializer",
                                                  @, context_vectors'),
                         !.fitness = Seen(shared, "fitness: engine, initializer", @, fitness')]
    /\ UNCHANGED <<calls, data, feature_idxs, decomposer, shared, py_random, np_random,
                   loader, conf, error, n_features, subpop_sizes, n_subcomps, subcomp_sizes,
                   components, convergence_curve, lastCall, best, n_gen>>

\* optimize, end of a round: the global best is taken and recorded.
EndGeneration ==
    /\ pc = "round_done"
    /\ best' = GetGlobalBest(current_best)
    /\ convergence_curve' = Append(convergence_curve, best'.fitness)
    /\ n_gen' = n_gen + 1
    /\ loop' = LoopAt(1, 1)
    /\ pc' = IF n_gen' >= MaxGen THEN "converged" ELSE "evolving"
    /\ round' = RoundStart(current_best)
    /\ UNCHANGED <<calls, data, feature_idxs, decomposer, shared, py_random, np_random,
                   loader, conf, error, n_features, subpop_sizes, n_subcomps, subcomp_sizes,
                   components, initializer, lastCall, subpops, context_vectors,
                   fitness, current_best>>

\* RandomContinuousInitialization.build_subpopulations
\* (initialization/random.py:172-190)
ContinuousBuildSubpopulations ==
    /\ pc = "continuous_ready"
    /\ \E built \in BuiltContinuousSubpops(initializer.subcomp_sizes,
                                            initializer.subpop_sizes) :
          /\ initializer' = [initializer EXCEPT !.subpops = AppendBuilt(@, built)]
          /\ pc' = IF initializer'.subpops = <<>>
                   THEN "continuous_evaluated" ELSE "continuous_evaluating"
          /\ np_random' = Advance(np_random, CellsDrawn(built))
    /\ loop' = LoopAt(1, 1)
    /\ UNCHANGED <<calls, data, feature_idxs, decomposer, shared, py_random, loader, round,
                   conf, error, n_features, subpop_sizes, n_subcomps, subcomp_sizes,
                   components, convergence_curve, lastCall, subpops,
                   context_vectors, fitness, current_best, best, n_gen>>

\* One pass of the inner loop of the continuous evaluate_individuals
\* (initialization/random.py:203-220) and, after the last individual of a
\* subpopulation, the stores of lines 221-224.
ContinuousEvaluateIndividual ==
    /\ pc = "continuous_evaluating"
    /\ LET sp == initializer.subpops
           i == loop.i
           j == loop.j
       IN  \E d \in Draws(sp), o \in FitnessOutcomes :
             LET r == GetCollaborators(i, j, sp, d)
                 collaborators == ThresholdCollaborators(r.collaborators)
                 cv == BuildContextVector(collaborators)
                 cvs == Append(loop.cvs, cv)
                 fit == Append(loop.fit, o.value)
             IN  /\ lastCall' = [subpop_idx |-> i, indiv_idx |-> j, err |-> r.err,
                                 collaborators |-> collaborators,
                                 context_vector |-> cv,
                                 raised |-> (~r.err /\ o.raised),
                                 fitness |-> o.value]
                 /\ py_random' = Advance(py_random, DrawsMade(sp, d))
                 /\ IF r.err
                    THEN /\ pc' = "index_error"
                         /\ error' = "IndexError"
                         /\ UNCHANGED <<initializer, loop>>
                    ELSE IF Propagates(o)
                    THEN /\ pc' = "evaluation_error"
                         /\ error' = "EvaluationError"
                         /\ UNCHANGED <<initializer, loop>>
                    ELSE IF j < Len(sp[i])
                    THEN /\ loop' = [i |-> i, j |-> j + 1, cvs |-> cvs, fit |-> fit]
                         /\ UNCHANGED <<initializer, pc, error>>
                    ELSE /\ error' = error
                         /\ initializer' = StoreSubpopResults(initializer, cvs, fit)
                         /\ loop' = LoopAt(i + 1, 1)
                         /\ pc' = IF i = Len(sp) THEN "continuous_evaluated"
                                  ELSE "continuous_evaluating"
    /\ UNCHANGED <<calls, data, feature_idxs, decomposer, shared, np_random, loader, round,
                   conf, n_features, subpop_sizes, n_subcomps, subcomp_sizes,
                   components, convergence_curve, subpops, context_vectors,
                   fitness, current_best, best, n_gen>>

\* build_subpopulations called on the initializer once more, after setup or
\* after the run (initialization/random.py:61-74: it appends to self.subpops)
RebuildSubpopulations ==
    /\ pc \in {"initialized", "converged"}
    /\ \E built \in BuiltSubpops(initializer.subcomp_sizes, initializer.subpop_sizes) :
          /\ built # <<>>
          /\ initializer' = [initializer EXCEPT !.subpops = AppendBuilt(@, built)]
          /\ np_random' = Advance(np_random, CellsDrawn(built))
    /\ subpops' = Seen(shared, "subpops: engine, initializer", subpops, initializer'.subpops)
    /\ pc' = "rebuilt"
    /\ UNCHANGED <<calls, data, feature_idxs, decomposer, shared, py_random, loader, round,
                   conf, error, n_features, subpop_sizes, n_subcomps, subcomp_sizes,
                   components, convergence_curve, loop, lastCall, context_vectors,
                   fitness, current_best, best, n_gen>>

\* build_subpopulations called on an initializer used on its own
\* (initialization/random.py:61-74)
InitializerBuild ==
    /\ pc = "initializer_calls"
    /\ Len(calls) < MaxCalls
    /\ \E built \in BuiltSubpops(initializer.subcomp_sizes, initializer.subpop_sizes) :
          /\ initializer' = [initializer EXCEPT !.subpops = AppendBuilt(@, built)]
          /\ np_random' = Advance(np_random, CellsDrawn(built))
    /\ calls' = Append(calls, "build")
    /\ UNCHANGED <<data, feature_idxs, decomposer, shared, py_random, loader, round,
                   conf, pc, error, n_features, subpop_sizes, n_subcomps, subcomp_sizes,
                   components, convergence_curve, loop, lastCall, subpops,
                   context_vectors, fitness, current_best, best, n_gen>>

\* evaluate_individuals called on an initializer used on its own
\* (initialization/random.py:76-109), from entry to return or exception
InitializerEvaluate ==
    /\ pc = "initializer_calls"
    /\ Len(calls) < MaxCalls
    /\ \E r \in EvaluateResults(initializer.subpops) :
          /\ initializer' = StoreAll(initializer, r.stored)
          /\ calls' = Append(calls, IF r.raised THEN "evaluate raised" ELSE "evaluate")
          /\ pc' = IF r.raised THEN "evaluation_error" ELSE pc
          /\ error' = IF r.raised THEN "EvaluationError" ELSE error
    /\ UNCHANGED <<data, feature_idxs, decomposer, shared, py_random, np_random, loader,
                   round, conf, n_features, subpop_sizes, n_subcomps, subcomp_sizes,
                   components, convergence_curve, loop, lastCall, subpops,
                   context_vectors, fitness, current_best, best, n_gen>>

\* DataLoader.load (utils/datasets.py:127-144)
DataLoaderLoad ==
    /\ loader.loads < MaxLoads
    /\ loader' = Load(loader)
    /\ UNCHANGED <<calls, data, feature_idxs, decomposer, shared, py_random, np_random, round,
                   conf, pc, error, n_features, subpop_sizes, n_subcomps, subcomp_sizes,
                   components, convergence_curve, initializer, loop, lastCall, subpops,
                   context_vectors, fitness, current_best, best, n_gen>>

Next ==
    \/ Construct
    \/ ProblemDecomposition
    \/ InitSubpopInitializer
    \/ BuildSubpopulations
    \/ EvaluateIndividual
    \/ CopyFromInitializer
    \/ InitOptimizers
    \/ SeedCurrentBest
    \/ EvolveSubpop
    \/ EndGeneration
    \/ RebuildSubpopulations

Spec == Init /\ [][Next]_vars

\* Construction, decomposition and _init_subpopulations only
SetupNext ==
    \/ Construct
    \/ ProblemDecomposition
    \/ InitSubpopInitializer
    \/ BuildSubpopulations
    \/ EvaluateIndividual
    \/ CopyFromInitializer
    \/ InitOptimizers

SetupSpec == SetupInit /\ [][SetupNext]_vars

\* Construction and problem decomposition only
DecompositionNext ==
    \/ Construct
    \/ ProblemDecomposition

DecompositionSpec == DecompositionInit /\ [][DecompositionNext]_vars

\* A DataLoader on its own: any dataset identifier, any state of the file
LoaderInit ==
    InitFrom({CHOOSE c \in LoopConfigs : TRUE},
             {NewLoader(d, f) : d \in KnownDatasets \cup UnknownDatasets, f \in FileStates})

LoaderNext == DataLoaderLoad

LoaderSpec == LoaderInit /\ [][LoaderNext]_vars

\* A RandomContinuousInitialization on its own, just created
\* (initialization/random.py:129-170)
ContinuousInit ==
    /\ conf \in {CHOOSE c \in LoopConfigs : TRUE}
    /\ pc = "continuous_ready"
    /\ error = "none"
    /\ \E shape \in ContinuousShapes :
          /\ initializer = NewInitializer(shape.subcomp_sizes, shape.subpop_sizes)
          /\ subpop_sizes = shape.subpop_sizes
          /\ subcomp_sizes = Some(shape.subcomp_sizes)
          /\ n_subcomps = Some(Len(shape.subcomp_sizes))
          /\ n_features = SumSeq(shape.subcomp_sizes)
    /\ components = {}
    /\ convergence_curve = <<>>
    /\ loop = LoopAt(0, 0)
    /\ lastCall = NoCall
    /\ subpops = <<>>
    /\ context_vectors = <<>>
    /\ fitness = <<>>
    /\ current_best = <<>>
    /\ best = NoBest
    /\ n_gen = 0
    /\ data = InitialData(conf)
    /\ feature_idxs = <<>>
    /\ decomposer = [n_subcomps |-> NoInt, subcomp_sizes |-> NoList]
    /\ shared = {}
    /\ py_random = Reseed(FreshStream, conf.seed)
    /\ np_random = Reseed(FreshStream, conf.seed)
    /\ loader = LoadedLoader
    /\ round = NoRound
    /\ calls = <<>>

\* A RandomBinaryInitialization on its own, just created
\* (initialization/random.py:45-59), receiving any sequence of calls
InitializerInit ==
    /\ conf \in {CHOOSE c \in LoopConfigs : TRUE}
    /\ pc = "initializer_calls"
    /\ error = "none"
    /\ \E shape \in InitializerShapes :
          /\ initializer = NewInitializer(shape.subcomp_sizes, shape.subpop_sizes)
          /\ subpop_sizes = shape.subpop_sizes
          /\ subcomp_sizes = Some(shape.subcomp_sizes)
          /\ n_subcomps = Some(Len(shape.subcomp_sizes))
          /\ n_features = SumSeq(shape.subcomp_sizes)
    /\ components = {}
    /\ convergence_curve = <<>>
    /\ loop = LoopAt(0, 0)
    /\ lastCall = NoCall
    /\ subpops = <<>>
    /\ context_vectors = <<>>
    /\ fitness = <<>>
    /\ current_best = <<>>
    /\ best = NoBest
    /\ n_gen = 0
    /\ data = InitialData(conf)
    /\ feature_idxs = <<>>
    /\ decomposer = [n_subcomps |-> NoInt, subcomp_sizes |-> NoList]
    /\ shared = {}
    /\ py_random = Reseed(FreshStream, conf.seed)
    /\ np_random = Reseed(FreshStream, conf.seed)
    /\ loader = LoadedLoader
    /\ round = NoRound
    /\ calls = <<>>

InitializerNext ==
    \/ InitializerBuild
    \/ InitializerEvaluate

InitializerSpec == InitializerInit /\ [][InitializerNext]_vars

ContinuousNext ==
    \/ ContinuousBuildSubpopulations
    \/ ContinuousEvaluateIndividual

ContinuousSpec == ContinuousInit /\ [][ContinuousNext]_vars

(* ======================= configuration checks ========================= *)
Constructed == pc # "new"

\* C1 (as stated): whenever the configuration supplies an n_subcomps that
\* differs from len(subpop_sizes), 0 included, construction raises a
\* configuration error.
C1_NSubcompsMismatchRaises ==
    (Constructed /\ conf.n_subcomps.given
                 /\ conf.n_subcomps.val # Len(conf.subpop_sizes))
        => pc = "config_error"

\* C2 (as stated): whenever the configuration supplies a subcomp_sizes whose
\* length differs from len(subpop_sizes), the empty list included,
\* construction raises a configuration error.
C2_SubcompSizesMismatchRaises ==
    (Constructed /\ conf.subcomp_sizes.given
                 /\ Len(conf.subcomp_sizes.val) # Len(conf.subpop_sizes))
        => pc = "config_error"

\* C2 (amended): whenever the configuration supplies a non-empty subcomp_sizes
\* whose length differs from len(subpop_sizes), construction raises a
\* configuration error.
C2_NonEmptySubcompSizesMismatchRaises ==
    (Constructed /\ conf.subcomp_sizes.given
                 /\ Len(conf.subcomp_sizes.val) > 0
                 /\ Len(conf.subcomp_sizes.val) # Len(conf.subpop_sizes))
        => pc = "config_error"

\* A non-empty subcomp_sizes shorter than subpop_sizes was rejected by the
\* second check (n_subcomps had passed the first).
C2_Witness ==
    /\ pc = "config_error"
    /\ error = "subcomp_sizes"
    /\ conf.subcomp_sizes.given
    /\ Len(conf.subcomp_sizes.val) > 0
    /\ Len(conf.subcomp_sizes.val) < Len(conf.subpop_sizes)

\* C3: when construction raises a size mismatch, no component has been
\* initialized, convergence_curve has no entry and no subpopulation has been
\* built, evaluated or advanced.
C3_MismatchBeforeAnythingElse ==
    pc = "config_error" =>
        /\ components = {}
        /\ convergence_curve = <<>>
        /\ initializer.subpops = <<>>
        /\ initializer.fitness = <<>>
        /\ subpops = <<>>
        /\ context_vectors = <<>>
        /\ fitness = <<>>
        /\ current_best = <<>>
        /\ n_gen = 0

\* Construction raised on the second check, the last point before the
\* components are initialized.
C3_Witness ==
    /\ pc = "config_error"
    /\ error = "subcomp_sizes"
    /\ Len(conf.subcomp_sizes.val) > Len(conf.subpop_sizes)

(* ============================ global best ============================= *)
\* _get_global_best has just returned: nothing has run since the call
JustAfterGlobalBest ==
    /\ best.set
    /\ pc \in {"evolving", "converged"}
    /\ loop.i = 1

\* C4: the result of _get_global_best is the context vector and fitness of
\* the current_best entry with the maximum fitness, the lowest subpopulation
\* index winning ties; every call recomputes it from current_best and leaves
\* current_best unchanged.
C4_GlobalBestIsFirstArgmax ==
    /\ [](JustAfterGlobalBest =>
            \E k \in 1..Len(current_best) :
                /\ best.fitness = current_best[k].fitness
                /\ best.context_vector = current_best[k].context_vector
                /\ \A m \in 1..Len(current_best) :
                      current_best[m].fitness <= current_best[k].fitness
                /\ \A m \in 1..(k - 1) :
                      current_best[m].fitness < current_best[k].fitness)
    /\ [][pc = "round_done" => current_best' = current_best]_vars

\* Two subpopulations tie on the maximum with different context vectors and
\* the call returned the entry of the first.
C4_Witness ==
    /\ JustAfterGlobalBest
    /\ Len(current_best) = 2
    /\ current_best[1].fitness = current_best[2].fitness
    /\ current_best[1].context_vector # current_best[2].context_vector
    /\ best.context_vector = current_best[1].context_vector

(* ======================= monotone current_best ======================== *)
\* C5: once seeded, current_best keeps one entry per subpopulation and the
\* fitness of every entry never decreases from one step to the next.
C5_CurrentBestNeverDecreases ==
    [][current_best # <<>> =>
          /\ Len(current_best') = Len(current_best)
          /\ \A i \in 1..Len(current_best) :
                current_best'[i].fitness >= current_best[i].fitness]_vars

\* After a generation an entry is strictly better than the one seeded from
\* the initializer while the subpopulation now holds a worse best.
C5_Witness ==
    /\ n_gen >= 1
    /\ \E i \in 1..Len(current_best) :
          /\ current_best[i].fitness >
                BestIndividuals(initializer.subpops, initializer.context_vectors,
                                initializer.fitness)[i].fitness
          /\ \A j \in 1..Len(fitness[i]) : fitness[i][j] < current_best[i].fitness

(* ========================= convergence curve ========================== *)
\* C6: convergence_curve is empty after construction; it has one entry per
\* completed generation, the entry of a generation being the maximum
\* current_best fitness at its end; entries are only appended and the values
\* are non-decreasing.
C6_ConvergenceCurveAppendOnly ==
    /\ [](pc = "constructed" =>
            "convergence_curve" \in components /\ convergence_curve = <<>>)
    /\ [](Len(convergence_curve) = n_gen)
    /\ [](JustAfterGlobalBest =>
            /\ \A m \in 1..Len(current_best) :
                  current_best[m].fitness <= convergence_curve[n_gen]
            /\ \E m \in 1..Len(current_best) :
                  current_best[m].fitness = convergence_curve[n_gen])
    /\ [](\A k \in 1..(Len(convergence_curve) - 1) :
            convergence_curve[k] <= convergence_curve[k + 1])
    /\ [][\/ convergence_curve' = convergence_curve
          \/ /\ Len(convergence_curve') = Len(convergence_curve) + 1
             /\ SubSeq(convergence_curve', 1, Len(convergence_curve)) = convergence_curve
             /\ n_gen' = n_gen + 1]_vars

\* Two generations completed, the second with a better global best that
\* comes from the second subpopulation.
C6_Witness ==
    /\ n_gen = 2
    /\ Len(convergence_curve) = 2
    /\ convergence_curve[1] < convergence_curve[2]
    /\ current_best[1].fitness < current_best[2].fitness

(* ==================== single random collaboration ===================== *)
Called == lastCall.subpop_idx # 0

\* Individuals of subpopulation k
Members(sp, k) == {sp[k][m] : m \in 1..Len(sp[k])}

\* C7: get_collaborators(i, j, subpops) returns one representative per
\* subpopulation, in order; slot i holds individual j of subpopulation i and
\* every other slot k holds a member of subpops[k]; subpops is not modified.
C7_OneRepresentativePerSubpop ==
    /\ [](Called =>
            LET sp == initializer.subpops
                i == lastCall.subpop_idx
                j == lastCall.indiv_idx
            IN  /\ Len(lastCall.collaborators) = Len(sp)
                /\ lastCall.collaborators[i] = sp[i][j]
                /\ \A k \in 1..Len(sp) :
                      k # i => lastCall.collaborators[k] \in Members(sp, k))
    /\ [][pc = "evaluating" => initializer'.subpops = initializer.subpops]_vars

\* A call for the first individual of a subpopulation of two different
\* individuals, with the second individual of the other subpopulation drawn.
C7_Witness ==
    /\ Called
    /\ lastCall.subpop_idx = 1
    /\ lastCall.indiv_idx = 1
    /\ Len(initializer.subpops) = 2
    /\ Len(initializer.subpops[1]) = 2
    /\ Len(initializer.subpops[2]) = 2
    /\ initializer.subpops[1][1] # initializer.subpops[1][2]
    /\ initializer.subpops[2][1] # initializer.subpops[2][2]
    /\ lastCall.collaborators[2] = initializer.subpops[2][2]

(* ========================== context vectors =========================== *)
\* Number of entries before the slot of subcomponent k
Offset(sizes, k) == SumSeq(SubSeq(sizes, 1, k - 1))

\* The entries of v in the slot of subcomponent k
Slot(v, sizes, k) == SubSeq(v, Offset(sizes, k) + 1, Offset(sizes, k) + sizes[k])

\* C8: every context vector assembled by evaluate_individuals has
\* n_features = sum(subcomp_sizes) entries, the slot of every subcomponent
\* holding exactly its representative, and the slot of subcomponent i equals
\* individual j; this holds for the vector of the latest call and for every
\* vector stored.
C8_ContextVectorCoversAllFeatures ==
    /\ (Called =>
          LET sizes == subcomp_sizes.val
              v == lastCall.context_vector
          IN  /\ Len(v) = n_features
              /\ Len(v) = SumSeq(sizes)
              /\ \A k \in 1..Len(sizes) : Slot(v, sizes, k) = lastCall.collaborators[k]
              /\ Slot(v, sizes, lastCall.subpop_idx) =
                    initializer.subpops[lastCall.subpop_idx][lastCall.indiv_idx])
    /\ \A i \in 1..Len(initializer.context_vectors) :
          /\ Len(initializer.context_vectors[i]) = Len(initializer.subpops[i])
          /\ \A j \in 1..Len(initializer.context_vectors[i]) :
                /\ Len(initializer.context_vectors[i][j]) = n_features
                /\ Slot(initializer.context_vectors[i][j], subcomp_sizes.val, i) =
                      initializer.subpops[i][j]

\* All individuals of two subpopulations of size 2 were evaluated; a vector
\* of the first subpopulation and one of the second differ in both slots.
C8_Witness ==
    /\ pc = "evaluated"
    /\ subcomp_sizes.val = <<1, 1>>
    /\ subpop_sizes = <<2, 2>>
    /\ initializer.context_vectors[1][1] = <<1, 0>>
    /\ initializer.context_vectors[2][2] = <<0, 1>>

(* ====================== subpopulation of size 1 ======================= *)
\* C9: no draw of get_collaborators falls outside its subpopulation and the
\* representative of a subpopulation of size 1 is always its sole individual.
C9_SoleIndividualIsRepresentative ==
    /\ error # "IndexError"
    /\ Called =>
          /\ ~lastCall.err
          /\ \A k \in 1..Len(initializer.subpops) :
                Len(initializer.subpops[k]) = 1 =>
                    lastCall.collaborators[k] = initializer.subpops[k][1]

\* An individual of a subpopulation of size 2 got the sole individual of a
\* subpopulation of size 1 as collaborator.
C9_Witness ==
    /\ Called
    /\ Len(initializer.subpops) = 2
    /\ Len(initializer.subpops[1]) = 1
    /\ Len(initializer.subpops[2]) = 2
    /\ lastCall.subpop_idx = 2
    /\ lastCall.indiv_idx = 2
    /\ lastCall.collaborators[1] = initializer.subpops[1][1]

(* ======================= built subpopulations ========================= *)
\* build_subpopulations has run (once) on the initializer
Built == pc \in {"evaluating", "evaluated", "initialized"}

\* C10: after build_subpopulations there are n_subcomps subpopulations,
\* subpopulation i holding subpop_sizes[i] individuals of subcomp_sizes[i]
\* genes, every gene 0 or 1.
C10_BuiltSubpopulationShapes ==
    Built =>
        /\ Len(initializer.subpops) = initializer.n_subcomps
        /\ Len(initializer.subpops) = n_subcomps.val
        /\ \A i \in 1..Len(initializer.subpops) :
              /\ Len(initializer.subpops[i]) = subpop_sizes[i]
              /\ \A j \in 1..Len(initializer.subpops[i]) :
                    /\ Len(initializer.subpops[i][j]) = subcomp_sizes.val[i]
                    /\ \A g \in 1..Len(initializer.subpops[i][j]) :
                          initializer.subpops[i][j][g] \in {0, 1}

\* One subpopulation of two individuals of one gene and one of one
\* individual of one gene, both gene values present.
C10_Witness ==
    /\ pc = "evaluating"
    /\ loop.i = 1 /\ loop.j = 1
    /\ subpop_sizes = <<2, 1>>
    /\ subcomp_sizes.val = <<1, 1>>
    /\ initializer.subpops = << <<<<0>>, <<1>>>>, <<<<1>>>> >>

(* ========================= parallel structures ======================== *)
\* evaluate_individuals has returned
Evaluated == pc \in {"evaluated", "initialized"}

\* C11: after build_subpopulations and evaluate_individuals the initializer's
\* subpops, context_vectors and fitness all have n_subcomps entries; entry i
\* of context_vectors has subpop_sizes[i] rows of n_features entries and
\* entry i of fitness has subpop_sizes[i] scalars; row j and scalar j are
\* those of individual j of subpopulation i.
C11_ParallelStructures ==
    /\ Evaluated =>
          /\ Len(initializer.subpops) = n_subcomps.val
          /\ Len(initializer.context_vectors) = n_subcomps.val
          /\ Len(initializer.fitness) = n_subcomps.val
          /\ \A i \in 1..n_subcomps.val :
                /\ Len(initializer.context_vectors[i]) = subpop_sizes[i]
                /\ Len(initializer.fitness[i]) = subpop_sizes[i]
                /\ \A j \in 1..subpop_sizes[i] :
                      /\ Len(initializer.context_vectors[i][j]) = n_features
                      /\ initializer.fitness[i][j] \in 0..MaxFit
                      /\ SubSeq(initializer.context_vectors[i][j],
                                SumSeq(SubSeq(subcomp_sizes.val, 1, i - 1)) + 1,
                                SumSeq(SubSeq(subcomp_sizes.val, 1, i)))
                            = initializer.subpops[i][j]
    /\ (Called /\ pc \in {"evaluating", "evaluated"}) =>
          LET i == lastCall.subpop_idx
              j == lastCall.indiv_idx
              stored == Len(initializer.fitness) >= i
              rows == IF stored THEN initializer.context_vectors[i] ELSE loop.cvs
              scalars == IF stored THEN initializer.fitness[i] ELSE loop.fit
          IN  /\ Len(rows) = j
              /\ Len(scalars) = j
              /\ rows[j] = lastCall.context_vector
              /\ scalars[j] = lastCall.fitness

\* Two subpopulations of two individuals were evaluated and the two scalars
\* of the second subpopulation differ.
C11_Witness ==
    /\ pc = "evaluated"
    /\ subpop_sizes = <<2, 2>>
    /\ Len(initializer.fitness) = 2
    /\ initializer.fitness[2] = <<0, 1>>
    /\ initializer.fitness[1] = <<1, 0>>

(* ---------------------------------- C12 ------------------------------- *)
Decomposed == pc = "decomposed"

\* C12: decomposition with a supplied feature_idxs applies exactly that
\* permutation and never draws a new one.  After _problem_decomposition in
\* train-validation mode the validation matrix is the original one reordered
\* by the feature_idxs of the training call, its subcomponents are the blocks
\* of that reordered matrix, training and validation columns line up position
\* by position, and decomposing the original validation matrix with that
\* feature_idxs has exactly one possible output (two calls agree).
C12_SuppliedFeatureIdxsIsApplied ==
    (Decomposed /\ conf.eval_mode = "train_val") =>
        /\ feature_idxs \in Perms(n_features)
        /\ data.X_train = Reorder(Columns("train", n_features), feature_idxs)
        /\ data.X_val = Reorder(Columns("val", n_features), feature_idxs)
        /\ data.S_train = Blocks(data.X_train, subcomp_sizes.val)
        /\ data.S_val = Blocks(data.X_val, subcomp_sizes.val)
        /\ \A p \in 1..n_features : data.X_val[p].col = data.X_train[p].col
        /\ DecomposeOutcomes(Columns("val", n_features), Some(feature_idxs),
                             subcomp_sizes.val)
             = {[S |-> data.S_val, feature_idxs |-> feature_idxs]}

\* A decomposition that drew the non-identity permutation of two features
C12_Witness ==
    /\ Decomposed
    /\ conf.eval_mode = "train_val"
    /\ feature_idxs = <<2, 1>>
    /\ data.S_val = <<<<[split |-> "val", col |-> 2]>>, <<[split |-> "val", col |-> 1]>>>>

(* ---------------------------------- C13 ------------------------------- *)
\* _problem_decomposition has returned normally
AfterDecomposition ==
    pc \notin {"new", "config_error", "constructed", "decomposition_error"}

\* _init_subpopulations has returned normally
SubpopsInitialized ==
    pc \in {"initialized", "optimizers_ready", "evolving", "round_done", "converged"}

\* C13: after decomposition sum(subcomp_sizes) = n_features and
\* len(subpop_sizes) = len(subcomp_sizes) = n_subcomps; the subpopulations
\* built by the initializer and those the engine holds after subpopulation
\* initialization number n_subcomps.
C13_SizesAgree ==
    /\ AfterDecomposition =>
          /\ n_subcomps.given /\ subcomp_sizes.given
          /\ SumSeq(subcomp_sizes.val) = n_features
          /\ Len(subpop_sizes) = Len(subcomp_sizes.val)
          /\ Len(subcomp_sizes.val) = n_subcomps.val
    /\ Built => Len(initializer.subpops) = n_subcomps.val
    /\ SubpopsInitialized => Len(subpops) = n_subcomps.val

\* An engine that was given only n_subcomps holds two subpopulations after
\* subpopulation initialization
C13_Witness ==
    /\ pc = "initialized"
    /\ ~conf.subcomp_sizes.given
    /\ conf.n_subcomps = Some(2)
    /\ subcomp_sizes = Some(<<1, 1>>)
    /\ Len(subpops) = 2

(* ---------------------------------- C14 ------------------------------- *)
\* get_collaborators calls completed before the one at position (i, j) of
\* evaluate_individuals
CallsBefore(sp, i, j) == SumSeq([k \in 1..(i - 1) |-> Len(sp[k])]) + (j - 1)

\* C14 (as stated): SingleRandom collaboration draws from a dedicated seeded
\* stream.  The stream it draws from is seeded once with the run seed and
\* its position at each call counts only the collaboration's own earlier
\* draws, however many values the initializer drew; and constructing the
\* collaboration leaves the stream the initializer draws from as it was.
C14_DedicatedSeededStream ==
    /\ [](pc = "evaluating" =>
            py_random = [seed |-> conf.seed, reseeded |-> 1,
                         pos |-> Len(initializer.subpops)
                                   * CallsBefore(initializer.subpops, loop.i, loop.j)])
    /\ [][pc = "new" => np_random' = np_random]_vars

(* ---------------------------------- C15 ------------------------------- *)
\* C15: load with a dataset identifier that is not a known dataset raises a
\* configuration error (AssertionError) and loads nothing: data is not set
\* and no file is read, at the first call and at any repeated call.
C15_UnknownDatasetLoadsNothing ==
    (loader.loads > 0 /\ loader.dataset \notin KnownDatasets) =>
        /\ loader.error = "AssertionError"
        /\ ~loader.data.given
        /\ loader.files_read = {}

\* load was called with a name that is a file name but not a key, while a
\* file is there
C15_Witness ==
    /\ loader.loads > 0
    /\ loader.dataset = "uji_indoor_loc"
    /\ loader.file = "uniform_dtypes"
    /\ loader.error = "AssertionError"
(* ---------------------------------- C16 ------------------------------- *)
\* The configuration leaves n_subcomps out (None), or leaves subcomp_sizes
\* out (None) or empty
NSubcompsUnspecified == ~conf.n_subcomps.given

SubcompSizesUnspecified == ~TruthyList(conf.subcomp_sizes)

\* C16: when the caller did not pre-specify n_subcomps or subcomp_sizes,
\* (1) after _problem_decomposition both are concrete, equal to the
\* decomposer's, and subcomp_sizes is not the decomposer's own list;
\* (2) whenever the initializer or the optimizers exist, decomposition has
\* happened and the initializer holds the concrete sizes;
\* (3) before decomposition the sizes those two creations read are
\* undefined: an unspecified n_subcomps is None and creating the optimizers
\* fails on it; an unspecified subcomp_sizes is None or empty, and creating
\* the initializer fails or yields an initializer of zero subcomponents.
C16_SizesConcreteBeforeCreation ==
    (NSubcompsUnspecified \/ SubcompSizesUnspecified) =>
        /\ AfterDecomposition =>
              /\ n_subcomps.given /\ subcomp_sizes.given
              /\ n_subcomps = decomposer.n_subcomps
              /\ subcomp_sizes = decomposer.subcomp_sizes
              /\ n_subcomps.val = Len(subcomp_sizes.val)
              /\ "subcomp_sizes: engine, decomposer" \notin shared
        /\ (components \cap {"initializer", "optimizers"} # {}) =>
              /\ AfterDecomposition
              /\ initializer.subcomp_sizes = subcomp_sizes.val
              /\ initializer.n_subcomps = n_subcomps.val
        /\ pc = "constructed" =>
              /\ NSubcompsUnspecified =>
                    /\ ~n_subcomps.given
                    /\ OptimizersCreation(n_subcomps, subpop_sizes, subcomp_sizes) # "none"
              /\ SubcompSizesUnspecified =>
                    LET r == InitializerCreation(subcomp_sizes, subpop_sizes)
                    IN  /\ ~TruthyList(subcomp_sizes)
                        /\ r.err # "none" \/ r.initializer.n_subcomps = 0

\* Optimizers created for a configuration that gave only n_subcomps
C16_Witness ==
    /\ "optimizers" \in components
    /\ "initializer" \in components
    /\ conf.n_subcomps = Some(2)
    /\ ~conf.subcomp_sizes.given
    /\ subcomp_sizes = Some(<<1, 1>>)
(* ---------------------------------- C17 ------------------------------- *)
\* C17: within one generation the subpopulations are advanced in the order
\* 1, 2, ..., n_subcomps, each exactly once, and the step that advances
\* subpopulation i assembles every new context vector from the current_best
\* of the others as it stands at that step: for k < i the best recorded when
\* k was advanced earlier in this round, for k > i the best the round began
\* with.  The step changes no current_best but that of i.
C17_RoundRobinFreshCollaborators ==
    /\ [](pc = "round_done" =>
            [k \in 1..Len(round.done) |-> round.done[k].subpop_idx]
              = [k \in 1..n_subcomps.val |-> k])
    /\ [][pc = "evolving" =>
            LET i == loop.i
            IN  /\ [k \in 1..Len(round.done) |-> round.done[k].subpop_idx]
                      = [k \in 1..(i - 1) |-> k]
                /\ round'.done = Append(round.done,
                                        [subpop_idx |-> i,
                                         individual |-> current_best'[i].individual])
                /\ \A k \in 1..n_subcomps.val :
                      /\ k # i => current_best'[k] = current_best[k]
                      /\ k < i => current_best[k].individual = round.done[k].individual
                      /\ k > i => current_best[k].individual = round.start[k]
                /\ \A j \in 1..Len(context_vectors'[i]) :
                    \A k \in 1..n_subcomps.val :
                      Slot(context_vectors'[i][j], subcomp_sizes.val, k)
                        = IF k = i THEN subpops'[i][j] ELSE current_best[k].individual
       ]_vars

\* A round in which subpopulation 1 improved on the best it began with and
\* subpopulation 2, advanced after it, was assembled with the new one
C17_Witness ==
    /\ pc = "round_done"
    /\ n_gen = 1
    /\ Len(round.done) = 2
    /\ round.done[1].individual # round.start[1]
    /\ Slot(context_vectors[2][1], subcomp_sizes.val, 1) = round.done[1].individual
(* ---------------------------------- C18 ------------------------------- *)
\* Context vectors assembled so far for subpopulation i: those stored, or
\* those of the pass in progress
AssembledFor(i) ==
    IF i <= Len(initializer.context_vectors) THEN initializer.context_vectors[i]
    ELSE IF i = loop.i THEN loop.cvs
    ELSE <<>>

\* C18: in the continuous initializer's evaluate_individuals every
\* collaborator, the individual under evaluation included, goes through the
\* thresholding function before assembly: every context vector assembled is
\* binary, its own-subcomponent slot is the thresholded individual, every
\* other slot is a thresholded member of that subpopulation; the
\* individuals in subpops stay continuous and are not changed.
C18_ContinuousCollaboratorsThresholded ==
    /\ [](pc \in {"continuous_evaluating", "continuous_evaluated"} =>
            LET sp == initializer.subpops
                sizes == initializer.subcomp_sizes
            IN  /\ \A i \in 1..Len(sp) : \A j \in 1..Len(AssembledFor(i)) :
                      LET cv == AssembledFor(i)[j]
                      IN  /\ Len(cv) = SumSeq(sizes)
                          /\ \A g \in 1..Len(cv) : cv[g] \in {0, 1}
                          /\ Slot(cv, sizes, i) = Threshold(sp[i][j])
                          /\ \A k \in 1..Len(sp) :
                                \E m \in Members(sp, k) :
                                   Slot(cv, sizes, k) = Threshold(m)
                /\ \A i \in 1..Len(sp) : \A j \in 1..Len(sp[i]) :
                      \A g \in 1..Len(sp[i][j]) : sp[i][j][g] \in ContinuousLevels)
    /\ [][pc = "continuous_evaluating" => initializer'.subpops = initializer.subpops]_vars

\* All individuals evaluated; one above the midpoint became 1, one below it
\* became 0, and both are still stored as drawn
C18_Witness ==
    /\ pc = "continuous_evaluated"
    /\ initializer.subpops[1][1] = <<8>>
    /\ initializer.subpops[2][1] = <<2>>
    /\ initializer.context_vectors[1][1] = <<1, 0>>
    /\ initializer.context_vectors[2][1] = <<1, 0>>
(* ---------------------------------- C19 ------------------------------- *)
\* C19: a failure of the fitness function while evaluating any individual in
\* evaluate_individuals leaves _init_subpopulations as an exception: the
\* call that failed is the last one made (no retry, no further step of the
\* setup or of the loop), the engine's subpops, context_vectors and fitness
\* are not assigned, no current_best is recorded and convergence_curve is
\* empty.
C19_FitnessFailureAbortsSetup ==
    /\ [](lastCall.raised =>
            /\ pc = "evaluation_error"
            /\ error = "EvaluationError"
            /\ subpops = <<>> /\ context_vectors = <<>> /\ fitness = <<>>
            /\ current_best = <<>>
            /\ convergence_curve = <<>>
            /\ ~best.set
            /\ "optimizers" \notin components)
    /\ [][lastCall.raised => FALSE]_vars

\* The failure happens at an individual of the second subpopulation, after
\* the first one's results were stored in the initializer
C19_Witness ==
    /\ pc = "evaluation_error"
    /\ lastCall.raised
    /\ lastCall.subpop_idx = 2
    /\ Len(initializer.context_vectors) = 1
    /\ subpops = <<>>
(* ---------------------------------- C20 ------------------------------- *)
\* C20: after _init_subpopulations the engine's subpops, context_vectors and
\* fitness equal the initializer's and share no object with them: a later
\* step that changes one of the engine's three leaves the initializer's
\* three as they were, and a later step that changes one of the
\* initializer's three leaves the engine's as they were.
C20_EngineArraysIndependent ==
    /\ [](pc = "initialized" =>
            /\ subpops = initializer.subpops
            /\ context_vectors = initializer.context_vectors
            /\ fitness = initializer.fitness)
    /\ []((SubpopsInitialized \/ pc = "rebuilt") =>
            shared \cap EngineInitializerAliases = {})
    /\ [][(SubpopsInitialized
            /\ <<subpops, context_vectors, fitness>>' # <<subpops, context_vectors, fitness>>)
          => /\ initializer'.subpops = initializer.subpops
             /\ initializer'.context_vectors = initializer.context_vectors
             /\ initializer'.fitness = initializer.fitness]_vars
    /\ [][(SubpopsInitialized /\ initializer' # initializer)
          => UNCHANGED <<subpops, context_vectors, fitness>>]_vars

\* After the run the engine's subpopulations differ from those the
\* initializer built, and a further build on the initializer did not reach
\* the engine
C20_Witness ==
    /\ pc = "rebuilt"
    /\ n_gen = MaxGen
    /\ Len(subpops) = n_subcomps.val
    /\ Len(initializer.subpops) = 2 * n_subcomps.val
    /\ subpops # SubSeq(initializer.subpops, 1, n_subcomps.val)
    /\ context_vectors # initializer.context_vectors
(* ---------------------------------- C21 ------------------------------- *)
\* Subpopulations one build_subpopulations call appends: one per pair of
\* zip(subcomp_sizes, subpop_sizes)
PerBuild == Min(Len(initializer.subcomp_sizes), Len(initializer.subpop_sizes))

\* build_subpopulations calls made, and those made before call k
Builds == Cardinality({k \in 1..Len(calls) : calls[k] = "build"})

BuildsBefore(k) == Cardinality({m \in 1..(k - 1) : calls[m] = "build"})

\* evaluate_individuals calls that returned after at least one build
EvaluationsAfterBuild ==
    Cardinality({k \in 1..Len(calls) : calls[k] = "evaluate" /\ BuildsBefore(k) >= 1})

\* Entries the evaluate_individuals calls that returned have appended to
\* context_vectors: each one entry per subpopulation present at its time
StoredByReturnedCalls ==
    PerBuild * SumSeq([k \in 1..Len(calls) |->
                         IF calls[k] = "evaluate" THEN BuildsBefore(k) ELSE 0])

\* One call on the initializer only appends: the old lists are prefixes of
\* the new ones; a build adds PerBuild subpopulations and nothing else; an
\* evaluation that returns adds one context-vector matrix and one fitness
\* list per subpopulation present, and none to subpops.
InitializerCallAppends ==
    LET old == initializer
        new == initializer'
        last == calls'[Len(calls')]
    IN  /\ SubSeq(new.subpops, 1, Len(old.subpops)) = old.subpops
        /\ SubSeq(new.context_vectors, 1, Len(old.context_vectors)) = old.context_vectors
        /\ SubSeq(new.fitness, 1, Len(old.fitness)) = old.fitness
        /\ last = "build" =>
              /\ Len(new.subpops) = Len(old.subpops) + PerBuild
              /\ new.context_vectors = old.context_vectors
              /\ new.fitness = old.fitness
        /\ last = "evaluate" =>
              /\ new.subpops = old.subpops
              /\ Len(new.context_vectors) = Len(old.context_vectors) + Len(old.subpops)
              /\ Len(new.fitness) = Len(old.fitness) + Len(old.subpops)
        /\ last = "evaluate raised" =>
              /\ new.subpops = old.subpops
              /\ Len(new.context_vectors) < Len(old.context_vectors) + Len(old.subpops)

\* C21 (as stated): the initializer's lists only grow; after any sequence of
\* calls len(context_vectors) = len(fitness); len(subpops) = n_subcomps only
\* if build_subpopulations ran exactly once; and, once subpopulations were
\* built, len(context_vectors) = len(subpops) only if evaluate_individuals
\* then ran exactly once.
C21_ListsOnlyGrow ==
    /\ [][pc = "initializer_calls" /\ calls' # calls => InitializerCallAppends]_vars
    /\ [](Len(initializer.context_vectors) = Len(initializer.fitness))
    /\ [](Len(initializer.subpops) = initializer.n_subcomps => Builds = 1)
    /\ []((Builds >= 1 /\ Len(initializer.context_vectors) = Len(initializer.subpops))
            => EvaluationsAfterBuild = 1)

\* C21 (amended): the lists only grow, len(context_vectors) = len(fitness)
\* always, len(subpops) = PerBuild * (number of builds), and the calls of
\* evaluate_individuals that returned appended one entry per subpopulation
\* present at the time.  Hence len(subpops) = n_subcomps only if
\* build_subpopulations ran exactly once, and after exactly one build
\* len(context_vectors) = len(subpops) only if evaluate_individuals then
\* returned exactly once.
C21_ListsOnlyGrowSingleBuild ==
    /\ [][pc = "initializer_calls" /\ calls' # calls => InitializerCallAppends]_vars
    /\ [](Len(initializer.context_vectors) = Len(initializer.fitness))
    /\ [](Len(initializer.subpops) = PerBuild * Builds)
    /\ [](pc = "initializer_calls" =>
            Len(initializer.context_vectors) = StoredByReturnedCalls)
    /\ [](Len(initializer.context_vectors) >= StoredByReturnedCalls)
    /\ [](Len(initializer.subpops) = initializer.n_subcomps => Builds = 1)
    /\ []((Builds = 1 /\ Len(initializer.context_vectors) = Len(initializer.subpops))
            => EvaluationsAfterBuild = 1)

\* An evaluation of the empty initializer, one build, one evaluation: the
\* three lists have n_subcomps entries
C21_Witness ==
    /\ calls = <<"evaluate", "build", "evaluate">>
    /\ initializer.n_subcomps = 2
    /\ Len(initializer.subpops) = 2
    /\ Len(initializer.context_vectors) = 2
    /\ Len(initializer.fitness) = 2
====
